---- MODULE Spec2Model ----
(***************************************************************************)
(* Linear binning of KDEpy (KDEpy/binning.py): linbin_numpy, linbin_cython *)
(* and linear_binning.                                                     *)
(*                                                                         *)
(* Numbers.  Grid points, samples and raw weights are integers.  Every     *)
(* real the code computes from them is a rational, kept exactly as an      *)
(* integer numerator over a denominator that the model names:              *)
(*   transformed_data, fractional :  numerator over  FDen(grid_points)     *)
(*   normalised weights            :  numerator over  WDen(weights)        *)
(*   frac_weights, neg_frac_weights, result : numerator over  den          *)
(*                                    = FDen(grid_points) * WDen(weights)  *)
(* so "the masses sum to 1" reads  SumSeq(mass) = den.  Floating point     *)
(* rounding is not modelled.  NaN is the not-a-number value that numpy     *)
(* produces for 0/0; it is absorbing in every arithmetic operation.        *)
(***************************************************************************)
EXTENDS Integers, Sequences, FiniteSets, TLC

\* ---- bounds of the model -------------------------------------------------
MaxM == 3   \* longest grid
MaxN == 2   \* most samples

GridStarts == {2}                     \* first grid point
GridSteps == {-2, 0, 2}               \* spacing of the grid as supplied
GridBumps == {0, 2}                   \* added to the last point (2: not equidistant)
DataVals == {-1, 1, 2, 3, 5, 6, 8}    \* sample values

\* ---- values ---------------------------------------------------------------
None == << >>                         \* weights=None
Some(w) == << w >>                    \* weights=<array w>

NaN == -1000000                       \* numpy nan (outside every numerator's range)
INT64_MIN == -(2^30)                  \* stand-in: below every grid index
INT64_MAX == 2^30                     \* stand-in: above every grid index

Abs(x) == IF x < 0 THEN -x ELSE x
FAdd(a, b) == IF a = NaN \/ b = NaN THEN NaN ELSE a + b
FSub(a, b) == IF a = NaN \/ b = NaN THEN NaN ELSE a - b
FMul(a, b) == IF a = NaN \/ b = NaN THEN NaN ELSE a * b

RECURSIVE SumSeq(_)
SumSeq(s) == IF s = << >> THEN 0 ELSE FAdd(Head(s), SumSeq(Tail(s)))

SetMin(S) == CHOOSE x \in S : \A y \in S : x <= y
SetMax(S) == CHOOSE x \in S : \A y \in S : x >= y
Range(s) == {s[i] : i \in 1..Len(s)}

\* ---- grid validation (binning.py 91-93, 36-38) ---------------------------
\* np.diff(grid_points)
Diff(g) == [i \in 1..(Len(g) - 1) |-> g[i + 1] - g[i]]

\* One element of np.allclose(a, b): |a - b| <= atol + rtol * |b| with
\* atol = 1e-8, rtol = 1e-5.  For integers a, b this is exactly
\* 100000 * |a - b| <= |b|  (atol is below the integer resolution).
IsClose(a, b) == 100000 * Abs(a - b) <= Abs(b)

\* The outcome of lines 92-93: diffs[0] of an empty array raises IndexError,
\* a failed assert raises AssertionError.
GridError(g) ==
  LET diffs == Diff(g) IN
  IF Len(diffs) = 0 THEN "IndexError"
  ELSE IF \A i \in 1..Len(diffs) : IsClose(diffs[1], diffs[i]) THEN "none"
  ELSE "AssertionError"

\* ---- weights (binning.py 95-102, 40-45) ----------------------------------
\* lines 95-98: the weight array the function works with
EffWeights(d, w) == IF w = None THEN [i \in 1..Len(d) |-> 1] ELSE w[1]

\* denominator of the normalised weights
WDen(ws) == IF SumSeq(ws) = 0 THEN 1 ELSE SumSeq(ws)

\* the weights as supplied, not divided by their sum
NormalizeUnscaled(ws) == [i \in 1..Len(ws) |-> ws[i] * WDen(ws)]
\* line 99: weights / np.sum(weights), numerators over WDen(ws); 0/0 is nan
Normalize(ws) == [i \in 1..Len(ws) |-> IF SumSeq(ws) = 0 THEN NaN ELSE ws[i]]

\* ---- coordinate transform (binning.py 104-109) ---------------------------
min_grid(g) == SetMin(Range(g))
max_grid(g) == SetMax(Range(g))
num_intervals(g) == Len(g) - 1

\* dx = (max_grid - min_grid) / num_intervals; dx = 0 iff this is 0
GridSpan(g) == max_grid(g) - min_grid(g)
\* denominator of transformed_data and fractional
FDen(g) == IF GridSpan(g) = 0 THEN 1 ELSE GridSpan(g)
\* numerators of transformed_data = (data - min_grid) / dx, for dx # 0
transformed_data(d, g) == [i \in 1..Len(d) |-> (d[i] - min_grid(g)) * num_intervals(g)]

\* ---- integral and fractional part (binning.py 115-116) -------------------
\* C modf: the integral part is rounded towards zero
Trunc(n, q) == IF n >= 0 THEN n \div q ELSE -((-n) \div q)

\* What astype(np.int) can give for a non-finite value ((x - min_grid) / 0.0):
\* the conversion is undefined in C; builds give INT64_MIN, or saturate.
CastNonFinite(x) ==
  IF x > 0 THEN {INT64_MIN, INT64_MAX}
  ELSE IF x = 0 THEN {INT64_MIN, 0}
  ELSE {INT64_MIN}

\* The integral arrays line 115-116 can produce from data d on grid g.
Integrals(d, g) ==
  IF GridSpan(g) = 0
  THEN {f \in [1..Len(d) -> {INT64_MIN, 0, INT64_MAX}] :
          \A i \in 1..Len(d) : f[i] \in CastNonFinite(d[i] - min_grid(g))}
  ELSE {[i \in 1..Len(d) |-> Trunc(transformed_data(d, g)[i], GridSpan(g))]}

\* The fractional array of line 115, numerators over FDen(g).
\* modf(+-inf) has fractional part 0, modf(nan) has fractional part nan.
Fractional(d, g, int) ==
  IF GridSpan(g) = 0
  THEN [i \in 1..Len(d) |-> IF d[i] = min_grid(g) THEN NaN ELSE 0]
  ELSE [i \in 1..Len(d) |-> transformed_data(d, g)[i] - int[i] * GridSpan(g)]

\* ---- sorting (binning.py 121-124) ----------------------------------------
\* np.argsort(integral): the permutations that sort it (the order of equal
\* keys is left to the sorting algorithm)
ArgSorts(int) ==
  {p \in [1..Len(int) -> 1..Len(int)] :
     /\ \A i, j \in 1..Len(int) : i # j => p[i] # p[j]
     /\ \A i, j \in 1..Len(int) : i < j => int[p[i]] <= int[p[j]]}

Take(s, p) == [i \in 1..Len(p) |-> s[p[i]]]

\* ---- products (binning.py 126-128) ---------------------------------------
\* numerators over FDen(g) * WDen(ws)
FracWeights(frac, nw) == [i \in 1..Len(frac) |-> FMul(frac[i], nw[i])]
NegFracWeights(frac, nw, fden) ==
  [i \in 1..Len(frac) |-> FSub(FMul(nw[i], fden), FMul(frac[i], nw[i]))]

\* ---- unique buckets (binning.py 132-134) ---------------------------------
SortedSeq(S) ==
  CHOOSE s \in [1..Cardinality(S) -> S] :
    \A i, j \in 1..Cardinality(S) : i < j => s[i] < s[j]

\* (unique_integrals >= 0) & (unique_integrals <= len(grid_points))
Filter(S, M) == {b \in S : b >= 0 /\ b <= M}

UniqueIntegrals(int, M) == SortedSeq(Filter(Range(int), M))

\* ---- aggregation loop (binning.py 136-144) -------------------------------
Zeros(n) == [i \in 1..n |-> 0]

\* np.searchsorted(a, v, side='left'), a sorted
SearchSortedLeft(a, v) == Cardinality({i \in 1..Len(a) : a[i] < v})
\* a search that takes every bucket to hold one sample
SearchSortedRightSingle(a, v) == SearchSortedLeft(a, v) + 1
\* np.searchsorted(a, v, side='right'), a sorted
SearchSortedRight(a, v) == Cardinality({i \in 1..Len(a) : a[i] <= v})

\* a[low:high].sum()  (0-based half-open slice)
RECURSIVE SliceSum(_, _, _)
SliceSum(a, low, high) ==
  IF low >= high THEN 0 ELSE FAdd(a[low + 1], SliceSum(a, low + 1, high))

\* result[k] += v for a 0-based index k inside the array
AddAt(res, k, v) == [res EXCEPT ![k + 1] = FAdd(@, v)]

\* One iteration of the loop, lines 141-144.  Line 143 writes result[grid_point],
\* line 144 writes result[grid_point + 1], which raises IndexError when the
\* index is len(result).
LoopBody(res, grid_point, int, fw, nfw) ==
  LET low_index == SearchSortedLeft(int, grid_point)
      high_index == SearchSortedRight(int, grid_point)
      r1 == AddAt(res, grid_point, SliceSum(nfw, low_index, high_index))
  IN IF grid_point + 1 >= Len(res)
     THEN [error |-> "IndexError", result |-> r1]
     ELSE [error |-> "none",
           result |-> AddAt(r1, grid_point + 1, SliceSum(fw, low_index, high_index))]

\* line 146: result[:-1]
DropLast(res) == SubSeq(res, 1, Len(res) - 1)

\* ---- linbin_numpy up to the loop (binning.py 87-136) ---------------------
\* int0 is the integral array of line 116 and perm the result of argsort.
Prologue(d, g, w, int0, perm) ==
  LET ws == EffWeights(d, w)
      nw == Normalize(ws)
      frac == Fractional(d, g, int0)
      ints == Take(int0, perm)
  IN [integral |-> ints,
      fractional |-> Take(frac, perm),
      frac_weights |-> FracWeights(Take(frac, perm), Take(nw, perm)),
      neg_frac_weights |-> NegFracWeights(Take(frac, perm), Take(nw, perm), FDen(g)),
      unique_integrals |-> UniqueIntegrals(ints, Len(g)),
      result |-> Zeros(Len(g) + 1),
      den |-> FDen(g) * WDen(ws)]

\* The exception linbin_numpy raises before the transform, if any.
NumpyError(d, g, w) ==
  IF GridError(g) # "none" THEN GridError(g)
  ELSE IF Len(d) # Len(EffWeights(d, w)) THEN "ValueError"
  ELSE "none"

\* ---- state ----------------------------------------------------------------
VARIABLES
  use_Cython,        \* _use_Cython: cutils was importable
  data, grid_points, weights,   \* the caller's arguments
  op,                \* the function called
  pc,                \* "idle", "loop", "done", "raised"
  error,             \* the exception raised
  integral, fractional, frac_weights, neg_frac_weights, unique_integrals,
  result,
  idx,               \* position of the for loop in unique_integrals
  den,               \* denominator of result and returned
  returned           \* the returned mass vector

vars == <<use_Cython, data, grid_points, weights, op, pc, error, integral,
          fractional, frac_weights, neg_frac_weights, unique_integrals, result, idx, den,
          returned>>

locals == <<integral, fractional, frac_weights, neg_frac_weights, unique_integrals, result, idx>>

Grids ==
  {[k \in 1..m |-> g0 + step * (k - 1) + (IF k = m THEN bump ELSE 0)] :
     <<m, g0, step, bump>> \in (0..MaxM) \X GridStarts \X GridSteps \X GridBumps}

SeqsUpTo(S, n) == UNION {[1..k -> S] : k \in 0..n}

\* weight arrays for n samples: all 0, all 2, 1..n, and 0 followed by ones
\* (the samples come in every order, so these cover the orders of the weights)
WeightArrays(n) ==
  {[i \in 1..n |-> 0], [i \in 1..n |-> 2], [i \in 1..n |-> i],
   [i \in 1..n |-> IF i = 1 THEN 0 ELSE 1]}

\* the weights argument for n samples: None, an array of length n, or an
\* array of another length
WeightArgs(n) ==
  {None} \cup {Some(w) : w \in WeightArrays(n)}
         \cup {Some([i \in 1..(n + 1) |-> 1])}

Init ==
  /\ use_Cython \in BOOLEAN
  /\ data \in SeqsUpTo(DataVals, MaxN)
  /\ grid_points \in Grids
  /\ weights \in WeightArgs(Len(data))
  /\ op = "none"
  /\ pc = "idle"
  /\ error = "none"
  /\ integral = << >>
  /\ fractional = << >>
  /\ frac_weights = << >>
  /\ neg_frac_weights = << >>
  /\ unique_integrals = << >>
  /\ result = << >>
  /\ idx = 1
  /\ den = 1
  /\ returned = << >>

Inputs == <<use_Cython, data, grid_points, weights>>

\* linbin_numpy(data, grid_points, w) from entry to the start of the loop
EnterNumpy(w) ==
  IF NumpyError(data, grid_points, w) # "none"
  THEN /\ pc' = "raised"
       /\ error' = NumpyError(data, grid_points, w)
       /\ UNCHANGED <<locals, den, returned>>
  ELSE \E int0 \in Integrals(data, grid_points) :
       \E perm \in ArgSorts(int0) :
       \E p \in {Prologue(data, grid_points, w, int0, perm)} :
         /\ pc' = "loop"
         /\ integral' = p.integral
         /\ fractional' = p.fractional
         /\ frac_weights' = p.frac_weights
         /\ neg_frac_weights' = p.neg_frac_weights
         /\ unique_integrals' = p.unique_integrals
         /\ result' = p.result
         /\ den' = p.den
         /\ idx' = 1
         /\ UNCHANGED <<error, returned>>

\* a call of linbin_numpy(data, grid_points, weights)
linbin_numpy ==
  /\ pc = "idle"
  /\ op' = "linbin_numpy"
  /\ EnterNumpy(weights)
  /\ UNCHANGED Inputs

\* one iteration of the for loop of linbin_numpy
LoopStep ==
  /\ pc = "loop"
  /\ idx <= Len(unique_integrals)
  /\ LET b == LoopBody(result, unique_integrals[idx], integral, frac_weights,
                       neg_frac_weights) IN
     /\ result' = b.result
     /\ error' = b.error
     /\ pc' = IF b.error = "none" THEN "loop" ELSE "raised"
  /\ idx' = idx + 1
  /\ UNCHANGED <<Inputs, op, integral, fractional, frac_weights,
                 neg_frac_weights, unique_integrals, den, returned>>

\* return result[:-1]
Return ==
  /\ pc = "loop"
  /\ idx > Len(unique_integrals)
  /\ returned' = DropLast(result)
  /\ pc' = "done"
  /\ UNCHANGED <<Inputs, op, error, locals, den>>

\* ---- the whole of linbin_numpy as a function of its arguments ------------
RECURSIVE RunLoop(_, _, _)
\* the for loop from position k on; p holds the arrays of the prologue
RunLoop(p, res, k) ==
  IF k > Len(p.unique_integrals)
  THEN [error |-> "none", den |-> p.den, mass |-> DropLast(res)]
  ELSE LET b == LoopBody(res, p.unique_integrals[k], p.integral, p.frac_weights,
                         p.neg_frac_weights) IN
       IF b.error # "none"
       THEN [error |-> b.error, den |-> p.den, mass |-> << >>]
       ELSE RunLoop(p, b.result, k + 1)

\* linbin_numpy(d, g, w) for a grid with dx # 0 (the integral array is then
\* determined, and the order of equal keys does not change a sum)
NumpyResult(d, g, w) ==
  IF NumpyError(d, g, w) # "none"
  THEN [error |-> NumpyError(d, g, w), den |-> 1, mass |-> << >>]
  ELSE LET int0 == CHOOSE f \in Integrals(d, g) : TRUE
           perm == CHOOSE q \in ArgSorts(int0) : TRUE
           p == Prologue(d, g, w, int0, perm)
       IN RunLoop(p, p.result, 1)

\* ---- linbin_cython (binning.py 32-61) ------------------------------------
\* The bucket floor(t) that cutils computes for each sample; for a non-finite
\* t the conversion to an integer is undefined, as in CastNonFinite.
CythonBuckets(d, g) ==
  IF GridSpan(g) = 0
  THEN {f \in [1..Len(d) -> {INT64_MIN, 0, INT64_MAX}] :
          \A i \in 1..Len(d) : f[i] \in CastNonFinite(d[i] - min_grid(g))}
  ELSE {[i \in 1..Len(d) |-> transformed_data(d, g)[i] \div GridSpan(g)]}

RECURSIVE iterate_data_weighted(_, _, _, _, _, _)
\* cutils.iterate_data_weighted(transformed_data, weights, result): one pass
\* over the samples from position i on; sample i adds w * (1 - f) to slot b and
\* w * f to slot b + 1 when both slots are inside result.  frac and the
\* weights nw are numerators over fden and the weight denominator.
iterate_data_weighted(bucket, frac, nw, fden, res, i) ==
  IF i > Len(bucket) THEN res
  ELSE LET b == bucket[i]
           hi == FMul(frac[i], nw[i])
           lo == FSub(FMul(nw[i], fden), hi)
           r == IF b >= 0 /\ b + 1 < Len(res)
                THEN AddAt(AddAt(res, b, lo), b + 1, hi)
                ELSE res
       IN iterate_data_weighted(bucket, frac, nw, fden, r, i + 1)

\* lines 40-45: the exception linbin_cython raises before the transform
CythonError(d, g, w) ==
  IF GridError(g) # "none" THEN GridError(g)
  ELSE IF w # None /\ Len(d) # Len(w[1]) THEN "ValueError"
  ELSE "none"

\* lines 47-61 for the buckets bucket, when nothing was raised.  With
\* weights=None every sample weighs 1 and line 58 divides the result by
\* len(transformed_data): 0.0 / 0 is nan.
CythonMass(d, g, w, bucket) ==
  LET frac == Fractional(d, g, bucket)
      ws == EffWeights(d, w)
      nw == IF w = None THEN ws ELSE Normalize(ws)
      out == DropLast(iterate_data_weighted(bucket, frac, nw, FDen(g),
                                            Zeros(Len(g) + 1), 1))
  IN IF w = None
     THEN [k \in 1..Len(out) |-> IF Len(d) = 0 THEN NaN ELSE out[k]]
     ELSE out

\* linbin_cython(d, g, w) with cutils present, for a grid with dx # 0
CythonResult(d, g, w) ==
  IF CythonError(d, g, w) # "none"
  THEN [error |-> CythonError(d, g, w), den |-> 1, mass |-> << >>]
  ELSE [error |-> "none", den |-> FDen(g) * WDen(EffWeights(d, w)),
        mass |-> CythonMass(d, g, w, CHOOSE f \in CythonBuckets(d, g) : TRUE)]

\* linbin_cython(data, grid_points, w), entry to return; without cutils the
\* call of line 57 or 60 raises NameError
CallCython(w) ==
  IF CythonError(data, grid_points, w) # "none" \/ ~use_Cython
  THEN /\ pc' = "raised"
       /\ error' = IF CythonError(data, grid_points, w) # "none"
                   THEN CythonError(data, grid_points, w) ELSE "NameError"
       /\ UNCHANGED <<locals, den, returned>>
  ELSE \E bucket \in CythonBuckets(data, grid_points) :
         /\ pc' = "done"
         /\ den' = FDen(grid_points) * WDen(EffWeights(data, w))
         /\ returned' = CythonMass(data, grid_points, w, bucket)
         /\ UNCHANGED <<locals, error>>

\* a call of linbin_cython(data, grid_points, weights)
linbin_cython ==
  /\ pc = "idle"
  /\ op' = "linbin_cython"
  /\ CallCython(weights)
  /\ UNCHANGED Inputs

\* ---- linear_binning (binning.py 177-180) ---------------------------------
\* the weights linear_binning hands to the strategy
PassedWeights(w) == None

\* a call of linear_binning(data, grid_points, weights)
linear_binning ==
  /\ pc = "idle"
  /\ op' = "linear_binning"
  /\ IF use_Cython
     THEN CallCython(PassedWeights(weights))
     ELSE EnterNumpy(PassedWeights(weights))
  /\ UNCHANGED Inputs

Next == linbin_numpy \/ linbin_cython \/ linear_binning \/ LoopStep \/ Return

Spec == Init /\ [][Next]_vars

\* ==== properties ===========================================================
\* A grid as the interface asks for it: at least two points, strictly
\* increasing, all spacings equal.
ValidGrid(g) ==
  /\ Len(g) >= 2
  /\ g[2] > g[1]
  /\ \A i \in 1..(Len(g) - 1) : g[i + 1] - g[i] = g[2] - g[1]

InRange(x, g) == g[1] <= x /\ x <= g[Len(g)]
AllInRange == \A i \in 1..Len(data) : InRange(data[i], grid_points)
LengthsMatch == weights = None \/ Len(weights[1]) = Len(data)
TotalWeight == SumSeq(EffWeights(data, weights))
NumpyReturned == op = "linbin_numpy" /\ pc = "done"

\* The per-sample reference rule on a valid grid g with spacing dx = g[2] - g[1]:
\* t = (x - g_min) / dx, b = floor(t), f = t - b.  Numerators over dx.
RefBucket(x, g) == (x - g[1]) \div (g[2] - g[1])
RefFrac(x, g) == (x - g[1]) - RefBucket(x, g) * (g[2] - g[1])

\* What sample i gives to output entry k (0-based) under the reference rule,
\* as a numerator over RefDen.
RefTerm(i, k) ==
  LET x == data[i]
      w == EffWeights(data, weights)[i]
      dx == grid_points[2] - grid_points[1]
  IN (IF RefBucket(x, grid_points) = k THEN w * (dx - RefFrac(x, grid_points)) ELSE 0)
     + (IF RefBucket(x, grid_points) + 1 = k THEN w * RefFrac(x, grid_points) ELSE 0)

RefDen == (grid_points[2] - grid_points[1]) * TotalWeight

RECURSIVE RefEntry(_, _, _)
\* Entry k of the reference vector, summed over samples i..N; with onlyIn the
\* samples outside [g_min, g_max] give nothing.
RefEntry(k, i, onlyIn) ==
  IF i > Len(data) THEN 0
  ELSE (IF onlyIn /\ ~InRange(data[i], grid_points) THEN 0 ELSE RefTerm(i, k))
       + RefEntry(k, i + 1, onlyIn)

\* two results (numerators m over denominator d) are the same vector of reals
SameVector(m1, d1, m2, d2) ==
  /\ Len(m1) = Len(m2)
  /\ \A k \in 1..Len(m1) : m1[k] # NaN /\ m2[k] # NaN /\ m1[k] * d2 = m2[k] * d1

\* ---- C1 -------------------------------------------------------------------
\* C1: on a valid grid of M points with every sample inside [g_min, g_max],
\* linbin_numpy returns the per-sample reference vector: entry k is the sum of
\* w_i * (1 - f_i) over the samples with b_i = k plus the sum of w_i * f_i over
\* those with b_i + 1 = k (no sample lost or counted twice by the grouping),
\* and samples equal to the last grid point put their whole weight on M - 1.
C1_ReferenceRule ==
  (NumpyReturned /\ ValidGrid(grid_points) /\ AllInRange /\ TotalWeight > 0) =>
    /\ Len(returned) = Len(grid_points)
    /\ \A k \in 1..Len(grid_points) :
         returned[k] * RefDen = RefEntry(k - 1, 1, FALSE) * den
    /\ (\A i \in 1..Len(data) : data[i] = grid_points[Len(grid_points)]) =>
         returned[Len(grid_points)] = den

\* a sample on the last grid point and a sample strictly between two grid
\* points, with positive weights supplied by the caller
C1_Witness ==
  /\ NumpyReturned /\ ValidGrid(grid_points) /\ AllInRange /\ TotalWeight > 0
  /\ \A i \in 1..Len(data) : EffWeights(data, weights)[i] > 0
  /\ \E i, j \in 1..Len(data) :
       /\ i # j
       /\ data[i] = grid_points[Len(grid_points)]
       /\ RefFrac(data[j], grid_points) # 0
       /\ RefBucket(data[i], grid_points) # RefBucket(data[j], grid_points)
  /\ weights # None
  /\ returned[Len(grid_points)] > 0

\* ---- C2 -------------------------------------------------------------------
\* C2: linear_binning(data, grid_points, weights) returns what the active
\* strategy returns when called with the same weights (stated here for the
\* strategy linbin_numpy, samples in range and weights of positive sum).
C2_DelegatesWithWeights ==
  (/\ op = "linear_binning" /\ pc = "done" /\ ~use_Cython
   /\ ValidGrid(grid_points) /\ AllInRange /\ LengthsMatch /\ TotalWeight > 0) =>
    LET r == NumpyResult(data, grid_points, weights)
    IN r.error = "none" /\ SameVector(returned, den, r.mass, r.den)

\* ---- C3 -------------------------------------------------------------------
\* C3 as stated: for any non-empty non-negative weights, or the default
\* uniform weights, on a valid grid with every sample in range the vector
\* returned by linbin_numpy sums to 1.
C3_SumsToOne ==
  (/\ NumpyReturned /\ ValidGrid(grid_points) /\ AllInRange
   /\ Len(data) > 0) =>
    SumSeq(returned) = den

\* C3 amended: for weights with a positive sum (the default uniform weights
\* of at least one sample included), on a valid grid with every sample in
\* range, the vector returned by linbin_numpy sums to 1 whatever the scale of
\* the weights.
C3_SumsToOnePositive ==
  (NumpyReturned /\ ValidGrid(grid_points) /\ AllInRange /\ TotalWeight > 0) =>
    SumSeq(returned) = den

\* supplied weights that do not sum to 1, samples in two buckets
C3_Witness ==
  /\ NumpyReturned /\ ValidGrid(grid_points) /\ AllInRange
  /\ weights # None /\ TotalWeight > 1
  /\ Len(data) = 2 /\ data[1] # data[2]
  /\ SumSeq(returned) = den

\* ---- C4 -------------------------------------------------------------------
\* C4: a sample below g_min or above g_max gives nothing to any entry: the
\* vector returned by linbin_numpy is the reference vector of the in-range
\* samples alone, with the weights normalised over all samples.
C4_OutOfRangeDropped ==
  (NumpyReturned /\ ValidGrid(grid_points) /\ TotalWeight > 0) =>
    \A k \in 1..Len(grid_points) :
      returned[k] * RefDen = RefEntry(k - 1, 1, TRUE) * den

\* ---- C5 -------------------------------------------------------------------
\* C5: on a valid grid with valid weights linbin_numpy raises nothing, every
\* write result[b] and result[b + 1] of the loop is inside the accumulator of
\* length M + 1, and the returned vector has length M.
C5_NoFailureOutOfRange ==
  (op = "linbin_numpy" /\ ValidGrid(grid_points) /\ LengthsMatch) =>
    /\ pc # "raised"
    /\ (pc = "loop" /\ idx <= Len(unique_integrals)) =>
         (unique_integrals[idx] >= 0 /\ unique_integrals[idx] + 1 < Len(result))
    /\ pc = "done" => Len(returned) = Len(grid_points)

\* ---- C6 -------------------------------------------------------------------
\* C6: for non-negative weights and a valid grid of M points linbin_numpy
\* returns a vector of length M with every entry >= 0 and sum <= 1.
C6_NonNegativeMass ==
  (/\ op = "linbin_numpy" /\ pc \in {"done", "raised"}
   /\ ValidGrid(grid_points) /\ LengthsMatch /\ TotalWeight > 0) =>
    /\ pc = "done"
    /\ Len(returned) = Len(grid_points)
    /\ \A k \in 1..Len(returned) : returned[k] >= 0
    /\ SumSeq(returned) <= den

\* ---- C7 -------------------------------------------------------------------
\* C7: for the same data, grid_points and weights (absent, or of positive
\* sum) linbin_numpy and linbin_cython return equal mass vectors.
C7_StrategiesAgree ==
  (/\ op = "linbin_numpy" /\ pc \in {"done", "raised"}
   /\ ValidGrid(grid_points) /\ LengthsMatch /\ TotalWeight > 0) =>
    LET r == CythonResult(data, grid_points, weights)
    IN /\ pc = "done"
       /\ r.error = "none"
       /\ SameVector(returned, den, r.mass, r.den)

\* ---- C8 -------------------------------------------------------------------
\* C8: linbin_numpy and linbin_cython raise the grid-validation error (the
\* error of the failed assert) whenever the grid has fewer than 2 points or
\* its differences are not all equal to the first one, the same error in both
\* cases.
C8_InvalidGridError ==
  (/\ op \in {"linbin_numpy", "linbin_cython"} /\ pc # "idle"
   /\ \/ Len(grid_points) < 2
      \/ \E i \in 1..(Len(grid_points) - 1) :
           grid_points[i + 1] - grid_points[i] # grid_points[2] - grid_points[1]) =>
    pc = "raised" /\ error = "AssertionError"

\* ---- C9 -------------------------------------------------------------------
\* C9: linbin_numpy splits every transformed coordinate t into
\* integral = floor(t) and fractional = t - integral with 0 <= fractional < 1,
\* also for negative t.
C9_FloorDecomposition ==
  (op = "linbin_numpy" /\ pc \in {"loop", "done"} /\ ValidGrid(grid_points)) =>
    \A i \in 1..Len(integral) :
      /\ 0 <= fractional[i] /\ fractional[i] < FDen(grid_points)
      /\ integral[i] =
           (integral[i] * FDen(grid_points) + fractional[i]) \div FDen(grid_points)

\* ---- C10 ------------------------------------------------------------------
\* C10: every grid that passes the validation of linbin_numpy is strictly
\* increasing, so dx > 0 when the transform is reached.
C10_ValidatedGridIncreasing ==
  (op = "linbin_numpy" /\ pc \in {"loop", "done"}) =>
    /\ \A i \in 1..(Len(grid_points) - 1) : grid_points[i] < grid_points[i + 1]
    /\ GridSpan(grid_points) > 0
====
